---- MODULE Spec2Model ----
(***************************************************************************)
(* StrategyResolver (freqtrade/resolvers/strategy_resolver.py).            *)
(*                                                                         *)
(* One run of StrategyResolver.load_strategy, stage by stage: the          *)
(* configuration check, _load_strategy (search path, base64 source,        *)
(* loader, interface version), the ticker_interval compatibility           *)
(* assignment, the hyperopt parameter overlay, the attribute override      *)
(* loop, _normalize_attributes, _strategy_sanity_validations, the return.  *)
(*                                                                         *)
(* Python values are records [t, n, s, d]: t the type, n a number in       *)
(* hundredths (so -0.10 is -10 and True is 100), s a string's text, d a    *)
(* dict's items in insertion order, each [k |-> key, v |-> number].        *)
(* An object or a dict of named entries is a function whose DOMAIN is the  *)
(* set of names present: hasattr(o, a) is a \in DOMAIN o.                  *)
(***************************************************************************)
EXTENDS Integers, Sequences, FiniteSets, TLC

VARIABLES
    pc,                \* the stage load_strategy is about to run
    requested,         \* config['strategy'], a sequence of characters
    search_dirs,       \* what build_search_paths returns
    loadable,          \* whether _load_object finds and instantiates the class
    fresh,             \* the instance _load_object returns when it does
    properties,        \* the attributes that are properties on the class
    fun_len,           \* the argument counts of the three populate methods
    ft_params,         \* strategy._ft_params_from_file
    config_in,         \* the configuration as passed to load_strategy
    config,            \* the configuration, changed in place
    strategy,          \* the instance being resolved
    strategy_name,     \* _load_strategy's local strategy_name
    abs_paths,         \* _load_strategy's local abs_paths
    temp_dirs,         \* the temporary directories created so far
    loader_call,       \* the arguments _load_object was called with
    interface_version, \* strategy.INTERFACE_VERSION as written by the resolver
    warnings,          \* the warnings logged so far
    failure,           \* the exception the run ended in
    stages             \* the stages run so far, in order

vars == <<pc, requested, search_dirs, loadable, fresh, properties, fun_len,
          ft_params, config_in, config, strategy, strategy_name, abs_paths,
          temp_dirs, loader_call, interface_version, warnings, failure, stages>>

----------------------------------------------------------------------------
(* Bounds of the model. *)

\* The longest plugin-name token, in characters.
MaxTokenLen == 6

----------------------------------------------------------------------------
(* Python values. *)

None == [t |-> "none", n |-> 0, s |-> "", d |-> <<>>]

PyBool(b) == [t |-> "bool", n |-> IF b THEN 100 ELSE 0, s |-> "", d |-> <<>>]

PyInt(i) == [t |-> "int", n |-> 100 * i, s |-> "", d |-> <<>>]

PyFloat(h) == [t |-> "float", n |-> h, s |-> "", d |-> <<>>]

PyStr(x) == [t |-> "str", n |-> 0, s |-> x, d |-> <<>>]

PyDict(items) == [t |-> "dict", n |-> 0, s |-> "", d |-> items]

StrKey(x) == [t |-> "str", n |-> 0, s |-> x]

IntKey(i) == [t |-> "int", n |-> i, s |-> ""]

IsNumber(v) == v.t \in {"bool", "int", "float"}

\* The items of a dict as Python compares them: without their order.
Items(v) == {v.d[i] : i \in 1..Len(v.d)}

Keys(v) == {v.d[i].k : i \in 1..Len(v.d)}

\* Python's ==: numbers by value whatever their type, strings by text,
\* dicts by their items whatever their order, None only with None.
PyEq(v, w) ==
    IF IsNumber(v) /\ IsNumber(w) THEN v.n = w.n
    ELSE IF v.t = "dict" /\ w.t = "dict" THEN Items(v) = Items(w)
    ELSE v.t = w.t /\ v.s = w.s

\* An object or dict with entry a set to v.
SetAttr(obj, a, v) ==
    [x \in DOMAIN obj \cup {a} |-> IF x = a THEN v ELSE obj[x]]

NoAttrs == [x \in {} |-> None]

----------------------------------------------------------------------------
(* Conversions. *)

\* int(key) of a dict key: [ok, n].
IntOfKey(k) ==
    IF k.t = "int" THEN [ok |-> TRUE, n |-> k.n]
    ELSE CASE k.s = "0" -> [ok |-> TRUE, n |-> 0]
           [] k.s = "20" -> [ok |-> TRUE, n |-> 20]
           [] k.s = "40" -> [ok |-> TRUE, n |-> 40]
           [] OTHER -> [ok |-> FALSE, n |-> 0]

\* float(value): [ok, v]. A number keeps its value, a numeric string is
\* parsed, anything else raises.
FloatOf(v) ==
    IF IsNumber(v) THEN [ok |-> TRUE, v |-> PyFloat(v.n)]
    ELSE IF v.t = "str"
    THEN CASE v.s = "-0.10" -> [ok |-> TRUE, v |-> PyFloat(-10)]
           [] v.s = "-0.25" -> [ok |-> TRUE, v |-> PyFloat(-25)]
           [] OTHER -> [ok |-> FALSE, v |-> None]
    ELSE [ok |-> FALSE, v |-> None]

\* The elements of a finite set of integers in ascending order.
RECURSIVE SortedSeq(_)
SortedSeq(S) ==
    IF S = {} THEN <<>>
    ELSE LET m == CHOOSE x \in S : \A y \in S : x <= y
         IN <<m>> \o SortedSeq(S \ {m})

\* {int(key): value for (key, value) in d.items()}: of the items whose key
\* converts to n, the last one's value.
LastValueFor(d, n) ==
    LET is == {i \in 1..Len(d) : IntOfKey(d[i].k).n = n}
        last == CHOOSE i \in is : \A j \in is : j <= i
    IN d[last].v

\* dict(sorted({int(key): value ...}.items(), key=lambda t: t[0]))
SortedRoi(v) ==
    LET ks == SortedSeq({IntOfKey(v.d[i].k).n : i \in 1..Len(v.d)})
    IN PyDict([i \in 1..Len(ks) |-> [k |-> IntKey(ks[i]), v |-> LastValueFor(v.d, ks[i])]])

RoiConvertible(v) ==
    v.t = "dict" /\ \A i \in 1..Len(v.d) : IntOfKey(v.d[i].k).ok

----------------------------------------------------------------------------
(* The plugin-name token. *)

\* str.split(sep): the pieces between the separators, in order.
RECURSIVE Split(_, _)
Split(s, sep) ==
    IF \A i \in 1..Len(s) : s[i] # sep THEN <<s>>
    ELSE LET first == CHOOSE i \in 1..Len(s) :
                          s[i] = sep /\ \A j \in 1..(i - 1) : s[j] # sep
         IN <<SubSeq(s, 1, first - 1)>> \o Split(SubSeq(s, first + 1, Len(s)), sep)

\* Whether urlsafe_b64decode accepts the payload: the characters of a
\* token are base64 digits, so their number must be a multiple of four
\* (and the bytes of "QQQQ" are ASCII, so the UTF-8 decoding succeeds).
B64Decodes(payload) == Len(payload) % 4 = 0

----------------------------------------------------------------------------
(* The constants of the resolver. *)

\* The keys order_types must hold (freqtrade.constants).
REQUIRED_ORDERTYPES == {"entry", "exit", "stoploss", "stoploss_on_exchange"}

\* The keys order_time_in_force must hold (freqtrade.constants).
REQUIRED_ORDERTIF == {"entry", "exit"}

\* load_strategy's attributes: (attribute name, default).
attributes ==
    << [name |-> "minimal_roi", default |-> PyDict(<<[k |-> StrKey("0"), v |-> 1000]>>)],
       [name |-> "timeframe", default |-> None],
       [name |-> "stoploss", default |-> None],
       [name |-> "trailing_stop", default |-> None],
       [name |-> "trailing_stop_positive", default |-> None],
       [name |-> "trailing_stop_positive_offset", default |-> PyFloat(0)],
       [name |-> "trailing_only_offset_is_reached", default |-> None],
       [name |-> "use_custom_stoploss", default |-> None],
       [name |-> "process_only_new_candles", default |-> None],
       [name |-> "order_types", default |-> None],
       [name |-> "order_time_in_force", default |-> None],
       [name |-> "stake_currency", default |-> None],
       [name |-> "stake_amount", default |-> None],
       [name |-> "protections", default |-> None],
       [name |-> "startup_candle_count", default |-> None],
       [name |-> "unfilledtimeout", default |-> None],
       [name |-> "use_sell_signal", default |-> PyBool(TRUE)],
       [name |-> "sell_profit_only", default |-> PyBool(FALSE)],
       [name |-> "ignore_roi_if_buy_signal", default |-> PyBool(FALSE)],
       [name |-> "sell_profit_offset", default |-> PyFloat(0)],
       [name |-> "disable_dataframe_checks", default |-> PyBool(FALSE)],
       [name |-> "ignore_buying_expired_candle_after", default |-> PyInt(0)] >>

AttributeNames == {attributes[i].name : i \in 1..Len(attributes)}

DefaultOf(a) == attributes[CHOOSE i \in 1..Len(attributes) : attributes[i].name = a].default

\* The attributes the hyperopt parameters overlay, in the order of the
\* assignments, each with the section and key of the parameters it is read
\* from ('roi' is read from the top level).
overlay ==
    << [attribute |-> "minimal_roi", section |-> "", key |-> "roi"],
       [attribute |-> "stoploss", section |-> "stoploss", key |-> "stoploss"],
       [attribute |-> "trailing_stop", section |-> "trailing", key |-> "trailing_stop"],
       [attribute |-> "trailing_stop_positive", section |-> "trailing",
        key |-> "trailing_stop_positive"],
       [attribute |-> "trailing_stop_positive_offset", section |-> "trailing",
        key |-> "trailing_stop_positive_offset"],
       [attribute |-> "trailing_only_offset_is_reached", section |-> "trailing",
        key |-> "trailing_only_offset_is_reached"] >>

OverlayNames == {overlay[i].attribute : i \in 1..Len(overlay)}

----------------------------------------------------------------------------
(* The stages of load_strategy as functions of the state they read. *)

\* params.get(key) or params.get(section, {}).get(key): whether the
\* parameters hold the entry.
ParamsHas(params, e) ==
    IF e.section = "" THEN e.key \in DOMAIN params
    ELSE e.section \in DOMAIN params /\ e.key \in DOMAIN params[e.section]

ParamsValue(params, e) ==
    IF e.section = "" THEN params[e.key] ELSE params[e.section][e.key]

\* The overlay reading no parameter: every attribute keeps its own value.
OverlayIgnoringParams(st, params, props, i) ==
    [ok |-> \A j \in i..Len(overlay) :
                overlay[j].attribute \in DOMAIN st /\ overlay[j].attribute \notin props,
     strategy |-> st]

\* The assignments of the overlay from the i-th on:
\*     strategy.A = params.get(key, strategy.A)
\* The default strategy.A is evaluated before get is called, so an instance
\* without A raises AttributeError; so does the assignment to a property.
\* [ok, strategy]: the assignments before the failing one have been made.
RECURSIVE HyperoptOverlay(_, _, _, _)
HyperoptOverlay(st, params, props, i) ==
    IF i > Len(overlay) THEN [ok |-> TRUE, strategy |-> st]
    ELSE LET e == overlay[i]
         IN IF e.attribute \notin DOMAIN st \/ e.attribute \in props
            THEN [ok |-> FALSE, strategy |-> st]
            ELSE HyperoptOverlay(
                     SetAttr(st, e.attribute,
                             IF ParamsHas(params, e) THEN ParamsValue(params, e)
                             ELSE st[e.attribute]),
                     params, props, i + 1)

\* The helper with the strategy's own value before the configuration's.
HelperOwnValueFirst(st, cfg, attribute, default, props) ==
    IF attribute \in DOMAIN st
    THEN IF st[attribute] # None
         THEN [strategy |-> st, config |-> SetAttr(cfg, attribute, st[attribute])]
         ELSE [strategy |-> st, config |-> cfg]
    ELSE IF attribute \in DOMAIN cfg /\ attribute \notin props
    THEN [strategy |-> SetAttr(st, attribute, cfg[attribute]), config |-> cfg]
    ELSE IF default # None
    THEN [strategy |-> SetAttr(st, attribute, default),
          config |-> SetAttr(cfg, attribute, default)]
    ELSE [strategy |-> st, config |-> cfg]

\* The helper with the default set on the strategy and not published in
\* the configuration.
HelperDefaultUnpublished(st, cfg, attribute, default, props) ==
    IF attribute \in DOMAIN cfg /\ attribute \notin props
    THEN [strategy |-> SetAttr(st, attribute, cfg[attribute]), config |-> cfg]
    ELSE IF attribute \in DOMAIN st
    THEN IF st[attribute] # None
         THEN [strategy |-> st, config |-> SetAttr(cfg, attribute, st[attribute])]
         ELSE [strategy |-> st, config |-> cfg]
    ELSE IF default # None
    THEN [strategy |-> SetAttr(st, attribute, default), config |-> cfg]
    ELSE [strategy |-> st, config |-> cfg]

\* The helper without the test for a property.
HelperOverwritingProperties(st, cfg, attribute, default, props) ==
    IF attribute \in DOMAIN cfg
    THEN [strategy |-> SetAttr(st, attribute, cfg[attribute]), config |-> cfg]
    ELSE IF attribute \in DOMAIN st
    THEN IF st[attribute] # None
         THEN [strategy |-> st, config |-> SetAttr(cfg, attribute, st[attribute])]
         ELSE [strategy |-> st, config |-> cfg]
    ELSE IF default # None
    THEN [strategy |-> SetAttr(st, attribute, default),
          config |-> SetAttr(cfg, attribute, default)]
    ELSE [strategy |-> st, config |-> cfg]

\* _override_attribute_helper: [strategy, config] after the call.
OverrideAttributeHelper(st, cfg, attribute, default, props) ==
    IF attribute \in DOMAIN cfg /\ attribute \notin props
    THEN [strategy |-> SetAttr(st, attribute, cfg[attribute]), config |-> cfg]
    ELSE IF attribute \in DOMAIN st
    THEN IF st[attribute] # None
         THEN [strategy |-> st, config |-> SetAttr(cfg, attribute, st[attribute])]
         ELSE [strategy |-> st, config |-> cfg]
    ELSE IF default # None
    THEN [strategy |-> SetAttr(st, attribute, default),
          config |-> SetAttr(cfg, attribute, default)]
    ELSE [strategy |-> st, config |-> cfg]

\* for attribute, default in attributes: _override_attribute_helper(...)
RECURSIVE OverrideAll(_, _, _, _)
OverrideAll(st, cfg, props, i) ==
    IF i > Len(attributes) THEN [strategy |-> st, config |-> cfg]
    ELSE LET r == OverrideAttributeHelper(st, cfg, attributes[i].name,
                                          attributes[i].default, props)
         IN OverrideAll(r.strategy, r.config, props, i + 1)

\* The first statement of _normalize_attributes.
NormalizeTimeframe(st) ==
    IF "timeframe" \in DOMAIN st THEN SetAttr(st, "ticker_interval", st["timeframe"])
    ELSE st

\* The minimal_roi statement of _normalize_attributes: [exc, strategy].
NormalizeRoi(st, props) ==
    IF "minimal_roi" \notin DOMAIN st THEN [exc |-> "", strategy |-> st]
    ELSE IF st["minimal_roi"].t # "dict" THEN [exc |-> "AttributeError", strategy |-> st]
    ELSE IF ~RoiConvertible(st["minimal_roi"]) THEN [exc |-> "ValueError", strategy |-> st]
    ELSE IF "minimal_roi" \in props THEN [exc |-> "AttributeError", strategy |-> st]
    ELSE [exc |-> "", strategy |-> SetAttr(st, "minimal_roi", SortedRoi(st["minimal_roi"]))]

\* The stoploss statement of _normalize_attributes: [exc, strategy].
NormalizeStoploss(st, props) ==
    IF "stoploss" \notin DOMAIN st THEN [exc |-> "", strategy |-> st]
    ELSE IF st["stoploss"].t \in {"none", "dict"} THEN [exc |-> "TypeError", strategy |-> st]
    ELSE IF ~FloatOf(st["stoploss"]).ok THEN [exc |-> "ValueError", strategy |-> st]
    ELSE IF "stoploss" \in props THEN [exc |-> "AttributeError", strategy |-> st]
    ELSE [exc |-> "", strategy |-> SetAttr(st, "stoploss", FloatOf(st["stoploss"]).v)]

\* _normalize_attributes: [exc, strategy], exc the exception raised ("" for
\* none) and strategy the instance with the statements before it done.
NormalizeAttributes(st, props) ==
    LET roi == NormalizeRoi(NormalizeTimeframe(st), props)
    IN IF roi.exc # "" THEN roi ELSE NormalizeStoploss(roi.strategy, props)

\* all(k in mapping for k in required): "" when it holds, else what comes
\* of it: the ImportError of the caller, or the exception of the test itself
\* when the attribute is missing or None.
RequiredKeysIn(st, attribute, required) ==
    IF attribute \notin DOMAIN st THEN "AttributeError"
    ELSE IF st[attribute].t # "dict" THEN "TypeError"
    ELSE IF \A k \in required : StrKey(k) \in Keys(st[attribute]) THEN ""
    ELSE "ImportError"

\* The validations without the test of order_time_in_force.
ValidationsOfOrderTypesOnly(st) ==
    LET types == RequiredKeysIn(st, "order_types", REQUIRED_ORDERTYPES)
    IN IF types # "" THEN [exc |-> types, what |-> "order_types"]
       ELSE [exc |-> "", what |-> ""]

\* _strategy_sanity_validations: [exc, what].
StrategySanityValidations(st) ==
    LET types == RequiredKeysIn(st, "order_types", REQUIRED_ORDERTYPES)
        tif == RequiredKeysIn(st, "order_time_in_force", REQUIRED_ORDERTIF)
    IN IF types # "" THEN [exc |-> types, what |-> "order_types"]
       ELSE IF tif # "" THEN [exc |-> tif, what |-> "order_time_in_force"]
       ELSE [exc |-> "", what |-> ""]

\* The materializer leaving strategy_name as it was requested.
MaterializeKeepingName(name, dirs) ==
    LET strat == Split(name, ":")
    IN IF (\E i \in 1..Len(name) : name[i] = ":") /\ Len(strat) = 2
       THEN IF B64Decodes(strat[2])
            THEN [made |-> TRUE, raised |-> FALSE, strategy_name |-> name,
                  abs_paths |-> <<"tmp">> \o dirs]
            ELSE [made |-> TRUE, raised |-> TRUE, strategy_name |-> name,
                  abs_paths |-> dirs]
       ELSE [made |-> FALSE, raised |-> FALSE, strategy_name |-> name,
             abs_paths |-> dirs]

\* The materializer putting the new directory last in the search path.
MaterializeAppending(name, dirs) ==
    LET strat == Split(name, ":")
    IN IF (\E i \in 1..Len(name) : name[i] = ":") /\ Len(strat) = 2
       THEN IF B64Decodes(strat[2])
            THEN [made |-> TRUE, raised |-> FALSE, strategy_name |-> strat[1],
                  abs_paths |-> dirs \o <<"tmp">>]
            ELSE [made |-> TRUE, raised |-> TRUE, strategy_name |-> name,
                  abs_paths |-> dirs]
       ELSE [made |-> FALSE, raised |-> FALSE, strategy_name |-> name,
             abs_paths |-> dirs]

\* The encoded-source part of _load_strategy for the name and the search
\* path build_search_paths gave: [made, raised, strategy_name, abs_paths],
\* made when mkdtemp was called, raised when the decoding failed.
Materialize(name, dirs) ==
    LET strat == Split(name, ":")
    IN IF (\E i \in 1..Len(name) : name[i] = ":") /\ Len(strat) = 2
       THEN IF B64Decodes(strat[2])
            THEN [made |-> TRUE, raised |-> FALSE, strategy_name |-> strat[1],
                  abs_paths |-> <<"tmp">> \o dirs]
            ELSE [made |-> TRUE, raised |-> TRUE, strategy_name |-> name,
                  abs_paths |-> dirs]
       ELSE [made |-> FALSE, raised |-> FALSE, strategy_name |-> name,
             abs_paths |-> dirs]

\* Whether any of the populate methods takes two arguments.
AnyLegacySignature(lens) == \E m \in DOMAIN lens : lens[m] = 2

\* The compatibility assignment made whatever the configuration holds.
CompatIgnoringConfig(st, cfg) ==
    IF "ticker_interval" \in DOMAIN st /\ "timeframe" \notin DOMAIN st
    THEN [strategy |-> SetAttr(st, "timeframe", st["ticker_interval"]), warned |-> TRUE]
    ELSE [strategy |-> st, warned |-> FALSE]

\* The ticker_interval compatibility assignment: [strategy, warned].
TickerIntervalCompat(st, cfg) ==
    IF /\ "ticker_interval" \in DOMAIN st
       /\ "timeframe" \notin DOMAIN st
       /\ "timeframe" \notin DOMAIN cfg
    THEN [strategy |-> SetAttr(st, "timeframe", st["ticker_interval"]), warned |-> TRUE]
    ELSE [strategy |-> st, warned |-> FALSE]

\* The stages with the interface version inferred after the validations.
StageAfterInferringLast(stage) ==
    CASE stage = "start" -> "paths"
      [] stage = "paths" -> "loader"
      [] stage = "loader" -> "compat"
      [] stage = "compat" -> "overlay"
      [] stage = "overlay" -> "override"
      [] stage = "override" -> "normalize"
      [] stage = "normalize" -> "validate"
      [] stage = "validate" -> "interface"
      [] stage = "interface" -> "return"
      [] OTHER -> "done"

\* The stage that follows a stage that raised nothing, in the order of the
\* statements of load_strategy and _load_strategy.
StageAfter(stage) ==
    CASE stage = "start" -> "paths"
      [] stage = "paths" -> "loader"
      [] stage = "loader" -> "interface"
      [] stage = "interface" -> "compat"
      [] stage = "compat" -> "overlay"
      [] stage = "overlay" -> "override"
      [] stage = "override" -> "normalize"
      [] stage = "normalize" -> "validate"
      [] stage = "validate" -> "return"
      [] OTHER -> "done"

----------------------------------------------------------------------------
(* The run. *)

NoFailure == [exc |-> "", what |-> "", name |-> <<>>]

NotCalled == [called |-> FALSE, paths |-> <<>>, object_name |-> <<>>]

Raise(exc, what, name) ==
    /\ failure' = [exc |-> exc, what |-> what, name |-> name]
    /\ pc' = "failed"

\* load_strategy up to the call of _load_strategy: no strategy set is an
\* OperationalException.
CheckConfig ==
    /\ pc = "start"
    /\ stages' = Append(stages, "config")
    /\ IF requested = <<>>
       THEN /\ Raise("OperationalException", "no_strategy", <<>>)
            /\ UNCHANGED strategy_name
       ELSE /\ strategy_name' = requested
            /\ pc' = StageAfter("start")
            /\ UNCHANGED failure
    /\ UNCHANGED <<requested, search_dirs, loadable, fresh, properties, fun_len,
                   ft_params, config_in, config, strategy, abs_paths, temp_dirs,
                   loader_call, interface_version, warnings>>

\* _load_strategy up to the call of _load_object: the search path, and for a
\* name with one ":" the source decoded into a new directory put first.
MaterializeSource ==
    /\ pc = "paths"
    /\ stages' = Append(stages, "materialize")
    /\ LET r == Materialize(strategy_name, search_dirs)
       IN /\ temp_dirs' = IF r.made THEN temp_dirs \cup {"tmp"} ELSE temp_dirs
          /\ strategy_name' = r.strategy_name
          /\ abs_paths' = r.abs_paths
          /\ IF r.raised
             THEN Raise("binascii.Error", "payload", strategy_name)
             ELSE pc' = StageAfter("paths") /\ UNCHANGED failure
    /\ UNCHANGED <<requested, search_dirs, loadable, fresh, properties, fun_len,
                   ft_params, config_in, config, strategy, loader_call,
                   interface_version, warnings>>

\* The call of _load_object, and the OperationalException when it returns
\* no instance.
LoadObject ==
    /\ pc = "loader"
    /\ stages' = Append(stages, "loader")
    /\ loader_call' = [called |-> TRUE, paths |-> abs_paths, object_name |-> strategy_name]
    /\ IF loadable
       THEN /\ strategy' = fresh
            /\ pc' = StageAfter("loader")
            /\ UNCHANGED failure
       ELSE /\ Raise("OperationalException", "not_found", strategy_name)
            /\ UNCHANGED strategy
    /\ UNCHANGED <<requested, search_dirs, loadable, fresh, properties, fun_len,
                   ft_params, config_in, config, strategy_name, abs_paths, temp_dirs,
                   interface_version, warnings>>

\* The end of _load_strategy: a populate method of two arguments makes the
\* strategy one of INTERFACE_VERSION 1.
InferInterfaceVersion ==
    /\ pc = "interface"
    /\ stages' = Append(stages, "interface_version")
    /\ interface_version' = IF AnyLegacySignature(fun_len) THEN 1 ELSE interface_version
    /\ pc' = StageAfter("interface")
    /\ UNCHANGED <<requested, search_dirs, loadable, fresh, properties, fun_len,
                   ft_params, config_in, config, strategy, strategy_name, abs_paths,
                   temp_dirs, loader_call, warnings, failure>>

\* The ticker_interval compatibility assignment of load_strategy.
TimeframeCompat ==
    /\ pc = "compat"
    /\ stages' = Append(stages, "timeframe_compat")
    /\ LET r == TickerIntervalCompat(strategy, config)
       IN /\ strategy' = r.strategy
          /\ warnings' = IF r.warned THEN Append(warnings, "DEPRECATED") ELSE warnings
    /\ pc' = StageAfter("compat")
    /\ UNCHANGED <<requested, search_dirs, loadable, fresh, properties, fun_len,
                   ft_params, config_in, config, strategy_name, abs_paths, temp_dirs,
                   loader_call, interface_version, failure>>

\* The parameters of a hyperopt results file, when the strategy has any.
ApplyHyperoptParams ==
    /\ pc = "overlay"
    /\ stages' = Append(stages, "overlay")
    /\ IF DOMAIN ft_params # {}
       THEN LET r == HyperoptOverlay(strategy, ft_params, properties, 1)
            IN /\ strategy' = r.strategy
               /\ IF r.ok
                  THEN pc' = StageAfter("overlay") /\ UNCHANGED failure
                  ELSE Raise("AttributeError", "overlay", loader_call.object_name)
       ELSE /\ pc' = StageAfter("overlay")
            /\ UNCHANGED <<strategy, failure>>
    /\ UNCHANGED <<requested, search_dirs, loadable, fresh, properties, fun_len,
                   ft_params, config_in, config, strategy_name, abs_paths, temp_dirs,
                   loader_call, interface_version, warnings>>

\* The override loop of load_strategy (the loop after it only logs).
OverrideAttributes ==
    /\ pc = "override"
    /\ stages' = Append(stages, "override")
    /\ LET r == OverrideAll(strategy, config, properties, 1)
       IN /\ strategy' = r.strategy
          /\ config' = r.config
    /\ pc' = StageAfter("override")
    /\ UNCHANGED <<requested, search_dirs, loadable, fresh, properties, fun_len,
                   ft_params, config_in, strategy_name, abs_paths, temp_dirs,
                   loader_call, interface_version, warnings, failure>>

\* The call of _normalize_attributes.
Normalize ==
    /\ pc = "normalize"
    /\ stages' = Append(stages, "normalize")
    /\ LET r == NormalizeAttributes(strategy, properties)
       IN /\ strategy' = r.strategy
          /\ IF r.exc = ""
             THEN pc' = StageAfter("normalize") /\ UNCHANGED failure
             ELSE Raise(r.exc, "normalize", loader_call.object_name)
    /\ UNCHANGED <<requested, search_dirs, loadable, fresh, properties, fun_len,
                   ft_params, config_in, config, strategy_name, abs_paths, temp_dirs,
                   loader_call, interface_version, warnings>>

\* The call of _strategy_sanity_validations; its ImportError names the
\* class of the strategy, the class _load_object was asked for.
Validate ==
    /\ pc = "validate"
    /\ stages' = Append(stages, "validate")
    /\ LET r == StrategySanityValidations(strategy)
       IN IF r.exc = ""
          THEN pc' = StageAfter("validate") /\ UNCHANGED failure
          ELSE Raise(r.exc, r.what, loader_call.object_name)
    /\ UNCHANGED <<requested, search_dirs, loadable, fresh, properties, fun_len,
                   ft_params, config_in, config, strategy, strategy_name, abs_paths,
                   temp_dirs, loader_call, interface_version, warnings>>

\* return strategy
Return ==
    /\ pc = "return"
    /\ stages' = Append(stages, "return")
    /\ pc' = StageAfter("return")
    /\ UNCHANGED <<requested, search_dirs, loadable, fresh, properties, fun_len,
                   ft_params, config_in, config, strategy, strategy_name, abs_paths,
                   temp_dirs, loader_call, interface_version, warnings, failure>>

Next ==
    \/ CheckConfig
    \/ MaterializeSource
    \/ LoadObject
    \/ InferInterfaceVersion
    \/ TimeframeCompat
    \/ ApplyHyperoptParams
    \/ OverrideAttributes
    \/ Normalize
    \/ Validate
    \/ Return

----------------------------------------------------------------------------
(* The inputs of a run. *)

\* The shapes a value of attribute a is drawn in.
Shapes(a) ==
    CASE a = "minimal_roi" -> {"str", "int", "bad"}
      [] a = "stoploss" -> {"float", "str", "bad"}
      [] a \in {"order_types", "order_time_in_force"} -> {"full", "partial"}
      [] OTHER -> {"plain"}

\* A mapping holding the keys ks, each with value n.
KeyDict(ks, n) ==
    LET RECURSIVE Build(_)
        Build(S) == IF S = {} THEN <<>>
                    ELSE LET k == CHOOSE x \in S : TRUE
                         IN <<[k |-> StrKey(k), v |-> n]>> \o Build(S \ {k})
    IN PyDict(Build(ks))

\* A value of attribute a that tells its source: src is 1 for the
\* configuration, 2 for the strategy's own code, 3 for the hyperopt
\* parameters.
ValueOf(a, src, shape) ==
    CASE shape = "str" /\ a = "minimal_roi" ->
             PyDict(<<[k |-> StrKey("20"), v |-> src], [k |-> StrKey("0"), v |-> src + 10]>>)
      [] shape = "int" ->
             PyDict(<<[k |-> IntKey(0), v |-> src + 10], [k |-> IntKey(40), v |-> src]>>)
      [] shape = "bad" /\ a = "minimal_roi" ->
             PyDict(<<[k |-> StrKey("soon"), v |-> src]>>)
      [] shape = "float" -> PyFloat(0 - (10 + src))
      [] shape = "str" /\ a = "stoploss" -> PyStr(IF src = 1 THEN "-0.10" ELSE "-0.25")
      [] shape = "bad" /\ a = "stoploss" -> PyStr("tight")
      [] shape = "full" ->
             KeyDict(IF a = "order_types" THEN REQUIRED_ORDERTYPES ELSE REQUIRED_ORDERTIF, src)
      [] shape = "partial" ->
             KeyDict(IF a = "order_types" THEN REQUIRED_ORDERTYPES \ {"stoploss_on_exchange"}
                     ELSE REQUIRED_ORDERTIF \ {"exit"}, src)
      [] OTHER -> PyInt(src)

\* The shape a value has when a run does not vary it.
UsualShape(a) ==
    CASE a = "minimal_roi" -> "str"
      [] a = "stoploss" -> "float"
      [] a \in {"order_types", "order_time_in_force"} -> "full"
      [] OTHER -> "plain"

\* A strategy that declares the attributes of `declared`, each with its
\* usual value.
Declaring(declared) == [a \in declared |-> ValueOf(a, 2, UsualShape(a))]

\* A configuration that holds the attributes of `keys`.
Configuring(keys) == [a \in keys |-> ValueOf(a, 1, UsualShape(a))]

\* o with the entries of p added or replaced.
With(o, p) == [x \in DOMAIN o \cup DOMAIN p |-> IF x \in DOMAIN p THEN p[x] ELSE o[x]]

TrailingNames == OverlayNames \ {"minimal_roi", "stoploss"}

\* The hyperopt parameters that supply the attributes of DOMAIN sup:
\* {'roi': ..., 'stoploss': {'stoploss': ...}, 'trailing': {...}}.
ParamsSupplying(sup) ==
    LET sections == {x \in {"roi", "stoploss", "trailing"} :
                        \/ x = "roi" /\ "minimal_roi" \in DOMAIN sup
                        \/ x = "stoploss" /\ "stoploss" \in DOMAIN sup
                        \/ x = "trailing" /\ DOMAIN sup \cap TrailingNames # {}}
    IN [x \in sections |->
           CASE x = "roi" -> sup["minimal_roi"]
             [] x = "stoploss" -> [k \in {"stoploss"} |-> sup["stoploss"]]
             [] OTHER -> [k \in DOMAIN sup \cap TrailingNames |-> sup[k]]]

\* The hyperopt parameters a run draws from: none, a section that supplies
\* nothing, one attribute (a value or null), all six.
ParamsChoices ==
    {NoAttrs, [x \in {"trailing"} |-> NoAttrs]}
    \cup UNION {{ParamsSupplying([a \in {b} |-> v]) :
                     v \in {None, ValueOf(b, 3, UsualShape(b))}} : b \in OverlayNames}
    \cup {ParamsSupplying([a \in OverlayNames |-> ValueOf(a, 3, UsualShape(a))])}

\* The plugin-name tokens: the characters of a name or payload, and ":".
RECURSIVE TokensOfLen(_)
TokensOfLen(n) ==
    IF n = 0 THEN {<<>>}
    ELSE {Append(t, c) : t \in TokensOfLen(n - 1), c \in {"Q", ":"}}

Tokens == UNION {TokensOfLen(n) : n \in 0..MaxTokenLen}

AllThree == [m \in {"populate_indicators", "populate_buy_trend", "populate_sell_trend"} |-> 3]

InitWith(req, dirs, found, inst, props, lens, params, cfg) ==
    /\ pc = "start"
    /\ requested = req
    /\ search_dirs = dirs
    /\ loadable = found
    /\ fresh = inst
    /\ properties = props
    /\ fun_len = lens
    /\ ft_params = params
    /\ config_in = cfg
    /\ config = cfg
    /\ strategy = NoAttrs
    /\ strategy_name = <<>>
    /\ abs_paths = <<>>
    /\ temp_dirs = {}
    /\ loader_call = NotCalled
    /\ interface_version = 0
    /\ warnings = <<>>
    /\ failure = NoFailure
    /\ stages = <<>>

\* Runs that vary the token, the search path, the loader's answer and the
\* populate methods, for a strategy that declares every attribute.
InitTokens ==
    \E req \in Tokens, dirs \in {<<"user_data/strategies">>, <<"user_data/strategies", "extra">>},
       found \in BOOLEAN,
       lens \in [{"populate_indicators", "populate_buy_trend", "populate_sell_trend"} -> {2, 3}],
       shape \in {"full", "partial"} :
        InitWith(req, dirs, found,
                 With(Declaring(AttributeNames),
                      [a \in {"order_types"} |-> ValueOf(a, 2, shape)]),
                 {}, lens, NoAttrs, NoAttrs)

\* Runs that vary one attribute: in the configuration or not, declared by
\* the strategy or not or null, a property or not; the other attributes
\* all declared or all missing; with and without hyperopt parameters and a
\* ticker_interval.
InitAttribute ==
    \E a \in AttributeNames, others \in BOOLEAN, prop \in BOOLEAN, ticker \in BOOLEAN,
       params \in {NoAttrs, ParamsSupplying([b \in OverlayNames |-> ValueOf(b, 3, UsualShape(b))])} :
      \E inCfg \in {NoAttrs} \cup {[b \in {a} |-> ValueOf(a, 1, sh)] : sh \in Shapes(a)},
         own \in {NoAttrs, [b \in {a} |-> None]}
                   \cup {[b \in {a} |-> ValueOf(a, 2, sh)] : sh \in Shapes(a)} :
        /\ prop => a \in DOMAIN own
        /\ InitWith(<<"Q">>, <<"user_data/strategies">>, TRUE,
                    With(With(IF others THEN Declaring(AttributeNames \ {a}) ELSE NoAttrs, own),
                         IF ticker THEN [b \in {"ticker_interval"} |-> PyInt(4)] ELSE NoAttrs),
                    IF prop THEN {a} ELSE {}, AllThree, params, inCfg)

\* Runs that vary the overlay: which of the six attributes the strategy
\* declares, which the configuration holds, what the parameters supply.
InitOverlay ==
    \E declared \in SUBSET OverlayNames, params \in ParamsChoices,
       keys \in {{}, OverlayNames} \cup {{a} : a \in OverlayNames} :
        InitWith(<<"Q">>, <<"user_data/strategies">>, TRUE,
                 Declaring((AttributeNames \ OverlayNames) \cup declared),
                 {}, AllThree, params, Configuring(keys))

\* Runs that vary what the normalizer and the validator read: the two
\* mappings in the configuration and on the strategy, minimal_roi, stoploss.
InitValidation ==
    \E ot \in {"absent", "null", "full", "partial"}, otCfg \in {"absent", "full", "partial"},
       tif \in {"absent", "null", "full", "partial"}, tifCfg \in {"absent", "full", "partial"},
       roi \in {"str", "bad"}, sl \in {"float", "bad"} :
        LET own(a, x) == CASE x = "absent" -> NoAttrs
                           [] x = "null" -> [b \in {a} |-> None]
                           [] OTHER -> [b \in {a} |-> ValueOf(a, 2, x)]
            cfg(a, x) == IF x = "absent" THEN NoAttrs ELSE [b \in {a} |-> ValueOf(a, 1, x)]
        IN InitWith(<<"Q">>, <<"user_data/strategies">>, TRUE,
                    With(With(With(Declaring(AttributeNames \ {"order_types", "order_time_in_force"}),
                                   [b \in {"minimal_roi"} |-> ValueOf(b, 2, roi)]),
                              [b \in {"stoploss"} |-> ValueOf(b, 2, sl)]),
                         With(own("order_types", ot), own("order_time_in_force", tif))),
                    {}, AllThree, NoAttrs,
                    With(cfg("order_types", otCfg), cfg("order_time_in_force", tifCfg)))

Init == InitTokens \/ InitAttribute \/ InitOverlay \/ InitValidation

Spec == Init /\ [][Next]_vars

----------------------------------------------------------------------------
(* The properties of load_strategy. *)

Returned == pc = "done"

Ran(stage) == \E i \in 1..Len(stages) : stages[i] = stage

\* The number of ":" in a token.
Separators(token) == Cardinality({i \in 1..Len(token) : token[i] = ":"})

\* The part of a token before its first ":".
BeforeSeparator(token) ==
    SubSeq(token, 1, (CHOOSE i \in 1..Len(token) :
                          token[i] = ":" /\ \A j \in 1..(i - 1) : token[j] # ":") - 1)

\* The canonical form the normalizer gives a value of attribute a.
Canonical(a, v) ==
    CASE a = "minimal_roi" -> SortedRoi(v)
      [] a = "stoploss" -> FloatOf(v).v
      [] OTHER -> v

\* Whether the hyperopt parameters supply attribute a, and with what.
Supplied(a) ==
    CASE a = "minimal_roi" -> "roi" \in DOMAIN ft_params
      [] a = "stoploss" ->
             "stoploss" \in DOMAIN ft_params /\ "stoploss" \in DOMAIN ft_params["stoploss"]
      [] a \in TrailingNames ->
             "trailing" \in DOMAIN ft_params /\ a \in DOMAIN ft_params["trailing"]
      [] OTHER -> FALSE

SuppliedValue(a) ==
    CASE a = "minimal_roi" -> ft_params["roi"]
      [] a = "stoploss" -> ft_params["stoploss"]["stoploss"]
      [] OTHER -> ft_params["trailing"][a]

\* Attribute a is the same, or as absent, on the objects o and p.
SameAttr(o, p, a) ==
    /\ (a \in DOMAIN o) = (a \in DOMAIN p)
    /\ a \in DOMAIN o => o[a] = p[a]

\* C1 as stated: on return every attribute that the configuration passed in
\* holds and that is no property equals, on the strategy, the configuration's
\* value.
C1_ConfigurationValueVerbatim ==
    Returned =>
        \A a \in AttributeNames :
            a \in DOMAIN config_in /\ a \notin properties =>
                a \in DOMAIN strategy /\ PyEq(strategy[a], config_in[a])

\* C1 as amended: on return every attribute that the configuration passed in
\* holds and that is no property equals, on the strategy, the configuration's
\* value, where for minimal_roi that is the configuration's table with its
\* keys converted to integers and sorted, and for stoploss the
\* configuration's value converted to float.
C1_ConfigurationWins ==
    Returned =>
        \A a \in AttributeNames :
            a \in DOMAIN config_in /\ a \notin properties =>
                a \in DOMAIN strategy /\ PyEq(strategy[a], Canonical(a, config_in[a]))

\* A strategy returned with the configuration's minimal_roi instead of its
\* own, its keys no longer the strings of the configuration.
C1_Witness ==
    /\ Returned
    /\ "minimal_roi" \in DOMAIN config_in /\ "minimal_roi" \in DOMAIN fresh
    /\ "minimal_roi" \notin properties
    /\ ~PyEq(strategy["minimal_roi"], config_in["minimal_roi"])
    /\ ~PyEq(strategy["minimal_roi"], Canonical("minimal_roi", fresh["minimal_roi"]))

\* C2 as stated: on return every attribute absent from the configuration
\* passed in and non-null on the instance the loader returned is in the
\* configuration with that value, hyperopt parameters or not.
C2_OwnValuePublishedAlways ==
    Returned =>
        \A a \in AttributeNames :
            a \notin DOMAIN config_in /\ a \in DOMAIN fresh /\ fresh[a] # None =>
                a \in DOMAIN config /\ PyEq(config[a], fresh[a])

\* C2 as amended: on return every attribute absent from the configuration
\* passed in and non-null on the instance the loader returned is in the
\* configuration with that value, unless the hyperopt parameters supply the
\* attribute: then the configuration holds the value they supply, and does
\* not hold the attribute when they supply null.
C2_OwnValuePublished ==
    Returned =>
        \A a \in AttributeNames :
            a \notin DOMAIN config_in /\ a \in DOMAIN fresh /\ fresh[a] # None =>
                IF DOMAIN ft_params # {} /\ Supplied(a)
                THEN IF SuppliedValue(a) # None
                     THEN a \in DOMAIN config /\ PyEq(config[a], SuppliedValue(a))
                     ELSE a \notin DOMAIN config
                ELSE a \in DOMAIN config /\ PyEq(config[a], fresh[a])

\* A strategy returned with an own value published in the configuration,
\* and with another one displaced there by the hyperopt parameters.
C2_Witness ==
    /\ Returned
    /\ \E a \in AttributeNames :
           /\ a \notin DOMAIN config_in /\ a \in DOMAIN fresh /\ fresh[a] # None
           /\ ~Supplied(a)
           /\ a \in DOMAIN config /\ PyEq(config[a], fresh[a])
    /\ \E a \in OverlayNames :
           /\ a \notin DOMAIN config_in /\ a \in DOMAIN fresh /\ fresh[a] # None
           /\ Supplied(a)
           /\ a \in DOMAIN config /\ ~PyEq(config[a], fresh[a])

\* The attributes with a default that is not None.
DefaultedNames ==
    {"minimal_roi", "trailing_stop_positive_offset", "use_sell_signal", "sell_profit_only",
     "ignore_roi_if_buy_signal", "sell_profit_offset", "disable_dataframe_checks",
     "ignore_buying_expired_candle_after"}

\* C3 as stated: on return every attribute with a non-null default that
\* neither the configuration passed in nor the loaded instance has holds the
\* default, on the strategy and in the configuration.
C3_DefaultOnBoth ==
    Returned =>
        \A a \in DefaultedNames :
            a \notin DOMAIN config_in /\ a \notin DOMAIN fresh =>
                /\ a \in DOMAIN strategy /\ PyEq(strategy[a], DefaultOf(a))
                /\ a \in DOMAIN config /\ PyEq(config[a], DefaultOf(a))

\* C3 as amended: on return every attribute with a non-null default that
\* neither the configuration passed in nor the loaded instance has holds the
\* default in the configuration, and on the strategy too, except that the
\* strategy's minimal_roi is {0: 10.0}, the default {"0": 10.0} with its key
\* an integer.
C3_DefaultFillsGap ==
    /\ DefaultedNames = {a \in AttributeNames : DefaultOf(a) # None}
    /\ Returned =>
        \A a \in DefaultedNames :
            a \notin DOMAIN config_in /\ a \notin DOMAIN fresh =>
                /\ a \in DOMAIN strategy
                /\ IF a = "minimal_roi"
                   THEN strategy[a] = PyDict(<<[k |-> IntKey(0), v |-> 1000]>>)
                   ELSE PyEq(strategy[a], DefaultOf(a))
                /\ a \in DOMAIN config /\ PyEq(config[a], DefaultOf(a))

\* A strategy returned that got its minimal_roi from the default.
C3_Witness ==
    /\ Returned
    /\ "minimal_roi" \notin DOMAIN config_in /\ "minimal_roi" \notin DOMAIN fresh
    /\ config["minimal_roi"] = DefaultOf("minimal_roi")
    /\ strategy["minimal_roi"] # DefaultOf("minimal_roi")

\* A mapping holds the keys required.
Complete(o, a, required) ==
    a \in DOMAIN o /\ o[a].t = "dict" /\ \A k \in required : StrKey(k) \in Keys(o[a])

\* The value of attribute a after the override pass, from the inputs: the
\* configuration's, else the strategy's own. <<>> when there is none.
Merged(a) ==
    IF a \in DOMAIN config_in /\ a \notin properties THEN <<config_in[a]>>
    ELSE IF a \in DOMAIN fresh THEN <<fresh[a]>>
    ELSE <<>>

\* The merged value of a is a mapping, and one that lacks a required key.
IsMapping(a) == Merged(a) # <<>> /\ Merged(a)[1].t = "dict"

Lacks(a, required) ==
    IsMapping(a) /\ \E k \in required : StrKey(k) \notin Keys(Merged(a)[1])

EndsInValidationFailure ==
    /\ pc = "failed"
    /\ failure.exc = "ImportError"
    /\ failure.name = loader_call.object_name
    /\ failure.what \in {"order_types", "order_time_in_force"}

\* C4 as stated: a strategy returned has both mappings complete, and a run
\* that loaded an instance whose merged order_types or order_time_in_force
\* lacks a required key ends in the validation failure. (The runs that the
\* overlay ends, the subject of C7, are left aside.)
C4_IncompleteAlwaysImportError ==
    /\ Returned => /\ Complete(strategy, "order_types", REQUIRED_ORDERTYPES)
                   /\ Complete(strategy, "order_time_in_force", REQUIRED_ORDERTIF)
    /\ ( /\ pc \in {"done", "failed"} /\ Ran("loader") /\ loadable
         /\ failure.what # "overlay"
         /\ \/ Lacks("order_types", REQUIRED_ORDERTYPES)
            \/ Lacks("order_time_in_force", REQUIRED_ORDERTIF) )
       => EndsInValidationFailure

\* C4 as amended: a strategy returned has both mappings complete; and a run
\* that reaches the sanity validator with order_types and
\* order_time_in_force both mappings, one of them lacking a required key,
\* returns no strategy and ends in the ImportError that names the class, not
\* in the OperationalException of a strategy not found.
C4_RequiredKeys ==
    /\ Returned => /\ Complete(strategy, "order_types", REQUIRED_ORDERTYPES)
                   /\ Complete(strategy, "order_time_in_force", REQUIRED_ORDERTIF)
    /\ ( /\ Ran("validate")
         /\ IsMapping("order_types") /\ IsMapping("order_time_in_force")
         /\ \/ Lacks("order_types", REQUIRED_ORDERTYPES)
            \/ Lacks("order_time_in_force", REQUIRED_ORDERTIF) )
       => EndsInValidationFailure /\ failure.exc # "OperationalException"

\* A run ended by the validator for an order_time_in_force without "exit",
\* its order_types complete.
C4_Witness ==
    /\ EndsInValidationFailure
    /\ failure.what = "order_time_in_force"
    /\ ~Lacks("order_types", REQUIRED_ORDERTYPES)
    /\ Lacks("order_time_in_force", REQUIRED_ORDERTIF)

\* C5 as stated: the failure for a strategy the loader does not return names
\* the string requested in config['strategy'].
C5_NamesRequestedString ==
    failure.what = "not_found" =>
        failure.exc = "OperationalException" /\ failure.name = requested

\* C5 as amended: the failure for a strategy the loader does not return is
\* the resolution failure and names the name the loader was asked for: the
\* string requested when it has no ":" or more than one, and the part
\* before the ":" when it has exactly one.
C5_NamesLoadedName ==
    (Ran("loader") /\ ~loadable) =>
        /\ pc = "failed"
        /\ failure.exc = "OperationalException" /\ failure.what = "not_found"
        /\ failure.name = IF Separators(requested) = 1 THEN BeforeSeparator(requested)
                          ELSE requested

\* A run that failed to load "name:payload" and names "name".
C5_Witness ==
    /\ failure.what = "not_found"
    /\ Separators(requested) = 1
    /\ failure.name # requested
    /\ failure.name = BeforeSeparator(requested)

\* C6: the materializer makes its directory exactly for a token with one
\* ":", and the loader is then called with the part before the ":" and with
\* the new directory before the search directories in their order; for any
\* other token nothing is made or raised and the loader is called with the
\* token and the search directories as they were.
C6_Materializer ==
    /\ temp_dirs = IF Ran("materialize") /\ Separators(requested) = 1 THEN {"tmp"} ELSE {}
    /\ failure.what = "payload" => Separators(requested) = 1
    /\ (stages # <<>> /\ stages[Len(stages)] = "materialize" /\ Separators(requested) # 1)
           => pc = "loader" /\ failure = NoFailure
    /\ loader_call.called =>
           IF Separators(requested) = 1
           THEN /\ loader_call.object_name = BeforeSeparator(requested)
                /\ loader_call.paths = <<"tmp">> \o search_dirs
           ELSE /\ loader_call.object_name = requested
                /\ loader_call.paths = search_dirs

\* The loader called for "name:payload" with two search directories.
C6_Witness ==
    /\ loader_call.called
    /\ Separators(requested) = 1
    /\ Len(search_dirs) = 2
    /\ Len(loader_call.paths) = 3
    /\ loader_call.object_name # requested

\* What C7 says of the strategy returned, for a strategy with hyperopt
\* parameters: the configuration's value, else the parameters' value (on
\* the strategy and in the configuration), else the strategy's own; each in
\* its canonical form on the strategy.
C7_Precedence ==
    (Returned /\ DOMAIN ft_params # {}) =>
        \A a \in OverlayNames :
            IF a \in DOMAIN config_in
            THEN PyEq(strategy[a], Canonical(a, config_in[a]))
            ELSE IF Supplied(a)
            THEN /\ PyEq(strategy[a], Canonical(a, SuppliedValue(a)))
                 /\ SuppliedValue(a) # None => PyEq(config[a], SuppliedValue(a))
            ELSE a \in DOMAIN fresh => PyEq(strategy[a], Canonical(a, fresh[a]))

\* C7: for a strategy with hyperopt parameters the overlay gives the
\* precedence of C7_Precedence and leaves what the parameters do not supply
\* as it was, whichever of the six attributes the strategy declares: no
\* choice of them makes the overlay fail.
C7_OverlayForEveryDeclaration ==
    /\ C7_Precedence
    /\ (pc = "override" /\ DOMAIN ft_params # {}) =>
           \A a \in OverlayNames : ~Supplied(a) => SameAttr(strategy, fresh, a)
    /\ properties = {} => failure.what # "overlay"

\* The order of the stages.
StageOrder ==
    <<"config", "materialize", "loader", "interface_version", "timeframe_compat",
      "overlay", "override", "normalize", "validate", "return">>

IsPrefix(p, q) == Len(p) <= Len(q) /\ \A i \in 1..Len(p) : p[i] = q[i]

\* C8 as stated: the interface version is inferred after the sanity
\* validator has passed, so a run that ends in the validation failure has
\* not set INTERFACE_VERSION.
C8_InferenceAfterValidator ==
    /\ Ran("interface_version") => Ran("validate")
    /\ failure.exc = "ImportError" => interface_version = 0

\* C8 as amended: the stages run in the order loader (the materializer
\* first), interface-version inference, ticker_interval compatibility,
\* hyperopt overlay, override loop, normalizer, sanity validator, return;
\* INTERFACE_VERSION is written as soon as the loader has returned, so a run
\* that ends in the validation failure has set it already when a populate
\* method takes two arguments.
C8_StageOrder ==
    /\ IsPrefix(stages, StageOrder)
    /\ interface_version =
           IF Ran("interface_version") /\ \E m \in DOMAIN fun_len : fun_len[m] = 2
           THEN 1 ELSE 0
    /\ Ran("timeframe_compat") => Ran("interface_version")

\* A run ended by the validator with INTERFACE_VERSION 1 written.
C8_Witness ==
    /\ pc = "failed" /\ failure.exc = "ImportError"
    /\ interface_version = 1

\* C9 as stated: the pass before the override loop copies timeframe onto
\* ticker_interval, with a warning, when the strategy has timeframe and no
\* ticker_interval and the configuration no timeframe, and otherwise
\* changes neither.
C9_TimeframeOntoTickerInterval ==
    pc = "overlay" =>
        IF /\ "ticker_interval" \notin DOMAIN fresh
           /\ "timeframe" \in DOMAIN fresh
           /\ "timeframe" \notin DOMAIN config_in
        THEN /\ "ticker_interval" \in DOMAIN strategy
             /\ strategy["ticker_interval"] = fresh["timeframe"]
             /\ warnings # <<>>
        ELSE /\ SameAttr(strategy, fresh, "timeframe")
             /\ SameAttr(strategy, fresh, "ticker_interval")

\* C9 as amended: the pass before the override loop copies ticker_interval
\* onto timeframe, with a deprecation warning, when the strategy has
\* ticker_interval and no timeframe and the configuration no timeframe, and
\* otherwise changes nothing and warns of nothing; it never changes
\* ticker_interval.
C9_TickerIntervalOntoTimeframe ==
    pc = "overlay" =>
        /\ SameAttr(strategy, fresh, "ticker_interval")
        /\ IF /\ "ticker_interval" \in DOMAIN fresh
              /\ "timeframe" \notin DOMAIN fresh
              /\ "timeframe" \notin DOMAIN config_in
           THEN /\ "timeframe" \in DOMAIN strategy
                /\ strategy["timeframe"] = fresh["ticker_interval"]
                /\ warnings = <<"DEPRECATED">>
           ELSE /\ strategy = fresh
                /\ warnings = <<>>

\* The pass has given a strategy the timeframe of its ticker_interval.
C9_Witness ==
    /\ pc = "overlay"
    /\ "timeframe" \notin DOMAIN fresh
    /\ "timeframe" \in DOMAIN strategy
    /\ warnings # <<>>

\* C10: once the override loop has run, an attribute that is a property of
\* the class and a key of the configuration passed in has not been written
\* on the strategy, and the configuration holds the property's value when
\* that is not None and the value passed in when it is.
C10_PropertiesKept ==
    Ran("override") =>
        \A a \in (AttributeNames \cap properties) \cap DOMAIN config_in :
            /\ a \in DOMAIN strategy /\ strategy[a] = fresh[a]
            /\ a \in DOMAIN config
            /\ config[a] = IF fresh[a] # None THEN fresh[a] ELSE config_in[a]

\* The override loop has replaced the configuration's value by a property's.
C10_Witness ==
    /\ Ran("override")
    /\ \E a \in (AttributeNames \cap properties) \cap DOMAIN config_in :
           /\ fresh[a] # None
           /\ config[a] = fresh[a]
           /\ config[a] # config_in[a]

====
